---- MODULE Spec2Model ----
(***************************************************************************)
(* Debounced search screen (src/app/search.tsx) and the virtualized result *)
(* presenter (src/components/CustomScrollView.tsx).                        *)
(*                                                                         *)
(* Strings whose content the code inspects (the keyword, which is trimmed, *)
(* and the remote message, which is split at "_") are sequences of         *)
(* one-character strings.  Single-threaded event loop: every action is one *)
(* callback run to completion together with the React effects it causes.   *)
(***************************************************************************)
EXTENDS Integers, Sequences, FiniteSets, TLC

\* ---------------------------------------------------------------- bounds
MaxCalls == 2
MaxMessages == 1
MaxItems == 2

\* ------------------------------------------------------------- constants
NullError == "null"
NullPage == "null"
NullMessage == <<"null">>
NoTimer == 0
NoResultsMessage == "no-results"
SearchFailedMessage == "search-failed"
SearchEmptyMessage == "type-a-keyword"

Whitespace == {" "}
Terms == { <<>>, <<" ">>, <<"a">>, <<"a", "b">> }
MessageTexts == { <<>>, <<"a">>, <<"a", "_">> }
Pages == {"search", "home"}
Responses == {"ok", "empty", "fail"}

\* ------------------------------------------------------- pure functions
RECURSIVE TrimStart(_)
TrimStart(s) ==
  IF s # <<>> /\ Head(s) \in Whitespace THEN TrimStart(Tail(s)) ELSE s

RECURSIVE TrimEnd(_)
TrimEnd(s) ==
  IF s # <<>> /\ s[Len(s)] \in Whitespace
  THEN TrimEnd(SubSeq(s, 1, Len(s) - 1)) ELSE s

\* String.prototype.trim
Trim(s) == TrimEnd(TrimStart(s))

\* truthiness of term.trim()
NonBlank(s) == Trim(s) # <<>>

\* lastMessage.split("_")[0]: the text before the first "_"
RECURSIVE SplitFirst(_)
SplitFirst(s) ==
  IF s = <<>> \/ Head(s) = "_" THEN <<>>
  ELSE <<Head(s)>> \o SplitFirst(Tail(s))

\* what api.searchVideos(term) resolves with when it finds something
Hits(term) == << [id |-> 1, title |-> term] >>

\* JavaScript truthiness of a string | null
Truthy(e) == e # NullError /\ e # ""

NotRendered == [main |-> "none", text |-> "", footer |-> "none"]

\* CustomScrollView with the loading check moved ahead of the error return
CustomScrollViewLoadingFirst(data, isLoading, err, loadingMore, emptyMessage) ==
  LET footer == IF loadingMore THEN "spinner" ELSE "none"
  IN IF data = <<>> /\ isLoading
     THEN [main |-> "loading", text |-> "", footer |-> footer]
     ELSE IF Truthy(err)
     THEN [main |-> "error", text |-> err, footer |-> "none"]
     ELSE IF data = <<>>
     THEN [main |-> "empty", text |-> emptyMessage, footer |-> footer]
     ELSE [main |-> "list", text |-> "", footer |-> footer]

\* What CustomScrollView renders: the early error return, else the FlashList
\* with its ListEmptyComponent (shown by the list when data is empty) and
\* its ListFooterComponent.
CustomScrollView(data, isLoading, err, loadingMore, emptyMessage) ==
  IF Truthy(err)
  THEN [main |-> "error", text |-> err, footer |-> "none"]
  ELSE LET footer == IF loadingMore THEN "spinner" ELSE "none"
       IN IF data = <<>>
          THEN IF isLoading
               THEN [main |-> "loading", text |-> "", footer |-> footer]
               ELSE [main |-> "empty", text |-> emptyMessage, footer |-> footer]
          ELSE [main |-> "list", text |-> "", footer |-> footer]

\* What the search screen shows below the input row.
renderSearchContent(res, isLoading, err) ==
  IF Truthy(err)
  THEN [main |-> "errorText", text |-> err, footer |-> "none"]
  ELSE CustomScrollView(res, isLoading, NullError, FALSE, SearchEmptyMessage)

VARIABLES
  keyword,        \* useState("")
  results,        \* useState<SearchResult[]>([])
  loading,        \* useState(false)
  error,          \* useState<string | null>(null)
  debounceTimer,  \* useRef: id of the last timer set, NoTimer for null
  timers,         \* the host's live timeouts: [id, term]
  calls,          \* api.searchVideos calls in launch order (their argument)
  outcome,        \* per call: "pending", or how its promise settled
  lastMessage,    \* remoteControlStore.lastMessage
  targetPage,     \* remoteControlStore.targetPage
  stamp,          \* messages the store has received so far
  msgDirty,       \* [lastMessage, targetPage] changed since the effect ran
  acks,           \* clearMessage calls: which message the store held at each
  event,          \* the callback that ran last
  pData,          \* CustomScrollView props: data
  pLoading,       \*   loading
  pLoadingMore,   \*   loadingMore
  pError,         \*   error
  pView,          \* what CustomScrollView rendered for these props
  kData,          \* the data FlashList extracts keys for
  kKeys,          \* the keys of one render pass, in item order
  deviceType,     \* responsiveConfig.deviceType
  showScrollToTop, \* useState(false)
  scrollY,        \* contentOffset.y of the last scroll event
  scrollCmds,     \* listRef.scrollToOffset calls
  focusTimers,    \* pending setTimeout callbacks of scrollToTop
  focus           \* where input focus is

ctrlVars == <<keyword, results, loading, error, debounceTimer, timers>>
apiVars == <<calls, outcome>>
storeVars == <<lastMessage, targetPage, stamp, msgDirty, acks>>
presenterVars == <<pData, pLoading, pLoadingMore, pError, pView>>
keyVars == <<kData, kKeys>>
scrollVars == <<deviceType, showScrollToTop, scrollY, scrollCmds, focusTimers, focus>>
listVars == <<kData, kKeys, deviceType, showScrollToTop, scrollY, scrollCmds,
              focusTimers, focus>>
vars == <<keyword, results, loading, error, debounceTimer, timers,
          calls, outcome, lastMessage, targetPage, stamp, msgDirty, acks,
          event, pData, pLoading, pLoadingMore, pError, pView,
          kData, kKeys, deviceType, showScrollToTop, scrollY, scrollCmds,
          focusTimers, focus>>

\* the search screen and a presenter instance after mounting
InitScreen ==
  /\ keyword = <<>>
  /\ results = <<>>
  /\ loading = FALSE
  /\ error = NullError
  /\ debounceTimer = NoTimer
  /\ timers = {}
  /\ calls = <<>>
  /\ outcome = <<>>
  /\ lastMessage = NullMessage
  /\ targetPage = NullPage
  /\ stamp = 0
  /\ msgDirty = FALSE
  /\ acks = <<>>
  /\ event = "mount"
  /\ pData = <<>>
  /\ pLoading = FALSE
  /\ pLoadingMore = FALSE
  /\ pError = NullError
  /\ pView = NotRendered

\* a presenter's own state after mounting
InitScroll ==
  /\ showScrollToTop = FALSE
  /\ scrollY = 0
  /\ scrollCmds = <<>>
  /\ focusTimers = 0
  /\ focus = "elsewhere"

Init ==
  /\ InitScreen
  /\ kData = <<>>
  /\ kKeys = <<>>
  /\ deviceType = "mobile"
  /\ InitScroll

\* clearTimeout left out: the previous timer stays live
ClearTimeoutSkipped(ts, ref) == ts

\* clearTimeout(debounceTimer.current) behind "if (debounceTimer.current)"
ClearTimeout(ts, ref) == { t \in ts : t.id # ref }

\* setTimeout hands out an id that nothing still refers to.  The only use
\* of an id is clearTimeout(debounceTimer.current), so an id that is neither
\* live nor held by the ref is as good as a never-used one.
FreshTimerId(ts, ref) ==
  CHOOSE n \in 1..(Cardinality(ts) + 2) :
    n # ref /\ \A t \in ts : t.id # n

\* the keyword effect without setResults([]) in its empty branch
KeywordEffectKeepsResults(k) ==
  LET cleared == ClearTimeout(timers, debounceTimer)
      id == FreshTimerId(cleared, debounceTimer)
  IN IF NonBlank(k)
     THEN /\ loading' = TRUE
          /\ error' = NullError
          /\ debounceTimer' = id
          /\ timers' = cleared \cup { [id |-> id, term |-> k] }
          /\ UNCHANGED results
     ELSE /\ error' = NullError
          /\ loading' = FALSE
          /\ timers' = cleared
          /\ UNCHANGED <<results, debounceTimer>>

\* the keyword effect with the clearTimeout moved into its non-empty branch
KeywordEffectClearsLate(k) ==
  LET cleared == ClearTimeout(timers, debounceTimer)
      id == FreshTimerId(cleared, debounceTimer)
  IN IF NonBlank(k)
     THEN /\ loading' = TRUE
          /\ error' = NullError
          /\ debounceTimer' = id
          /\ timers' = cleared \cup { [id |-> id, term |-> k] }
          /\ UNCHANGED results
     ELSE /\ results' = <<>>
          /\ error' = NullError
          /\ loading' = FALSE
          /\ timers' = timers
          /\ UNCHANGED debounceTimer

\* the keyword effect without setLoading(false) in its empty branch
KeywordEffectKeepsLoading(k) ==
  LET cleared == ClearTimeout(timers, debounceTimer)
      id == FreshTimerId(cleared, debounceTimer)
  IN IF NonBlank(k)
     THEN /\ loading' = TRUE
          /\ error' = NullError
          /\ debounceTimer' = id
          /\ timers' = cleared \cup { [id |-> id, term |-> k] }
          /\ UNCHANGED results
     ELSE /\ results' = <<>>
          /\ error' = NullError
          /\ timers' = cleared
          /\ UNCHANGED <<loading, debounceTimer>>

\* the keyword effect without setError(null) in its non-empty branch
KeywordEffectKeepsError(k) ==
  LET cleared == ClearTimeout(timers, debounceTimer)
      id == FreshTimerId(cleared, debounceTimer)
  IN IF NonBlank(k)
     THEN /\ loading' = TRUE
          /\ debounceTimer' = id
          /\ timers' = cleared \cup { [id |-> id, term |-> k] }
          /\ UNCHANGED <<results, error>>
     ELSE /\ results' = <<>>
          /\ error' = NullError
          /\ loading' = FALSE
          /\ timers' = cleared
          /\ UNCHANGED debounceTimer

\* The keyword effect, run after a render in which keyword changed to k.
KeywordEffect(k) ==
  LET cleared == ClearTimeout(timers, debounceTimer)
      id == FreshTimerId(cleared, debounceTimer)
  IN IF NonBlank(k)
     THEN /\ loading' = TRUE
          /\ error' = NullError
          /\ debounceTimer' = id
          /\ timers' = cleared \cup { [id |-> id, term |-> k] }
          /\ UNCHANGED results
     ELSE /\ results' = <<>>
          /\ error' = NullError
          /\ loading' = FALSE
          /\ timers' = cleared
          /\ UNCHANGED debounceTimer

\* setKeyword(k): a state update to the same value causes no render
SetKeyword(k) ==
  IF k = keyword
  THEN UNCHANGED ctrlVars
  ELSE keyword' = k /\ KeywordEffect(k)

\* TextInput.onChangeText
ChangeText(t) ==
  /\ t # keyword
  /\ SetKeyword(t)
  /\ event' = "changeText"
  /\ UNCHANGED <<apiVars, storeVars, presenterVars, listVars>>

\* handleSearch whose empty-term guard also resets results and error
handleSearchGuardResets(term) ==
  IF ~NonBlank(term)
  THEN /\ loading' = FALSE
       /\ results' = <<>>
       /\ error' = NullError
       /\ UNCHANGED <<keyword, debounceTimer, apiVars>>
  ELSE /\ Len(calls) < MaxCalls
       /\ error' = NullError
       /\ calls' = Append(calls, term)
       /\ outcome' = Append(outcome, "pending")
       /\ UNCHANGED <<keyword, results, loading, debounceTimer>>

\* handleSearch(term) up to the await; leaves the timers to its caller
handleSearch(term) ==
  IF ~NonBlank(term)
  THEN /\ loading' = FALSE
       /\ UNCHANGED <<keyword, results, error, debounceTimer, apiVars>>
  ELSE /\ Len(calls) < MaxCalls
       /\ error' = NullError
       /\ calls' = Append(calls, term)
       /\ outcome' = Append(outcome, "pending")
       /\ UNCHANGED <<keyword, results, loading, debounceTimer>>

\* the setTimeout callback of the keyword effect
TimerFire ==
  \E t \in timers :
    /\ timers' = timers \ {t}
    /\ handleSearch(t.term)
    /\ event' = "timer"
    /\ UNCHANGED <<storeVars, presenterVars, listVars>>

\* onSearchPress without the clearTimeout
onSearchPressNoClear ==
  /\ UNCHANGED timers
  /\ handleSearch(keyword)
  /\ event' = "press"
  /\ UNCHANGED <<storeVars, presenterVars, listVars>>

\* search button / onSubmitEditing
onSearchPress ==
  /\ timers' = ClearTimeout(timers, debounceTimer)
  /\ handleSearch(keyword)
  /\ event' = "press"
  /\ UNCHANGED <<storeVars, presenterVars, listVars>>

\* handleSearch with setLoading(false) at the end of try instead of finally
ResolveNoFinally(i, r) ==
  /\ outcome[i] = "pending"
  /\ outcome' = [outcome EXCEPT ![i] = r]
  /\ CASE r = "ok" ->
            /\ results' = Hits(calls[i])
            /\ loading' = FALSE
            /\ UNCHANGED error
       [] r = "empty" ->
            /\ error' = NoResultsMessage
            /\ results' = <<>>
            /\ loading' = FALSE
       [] r = "fail" ->
            /\ error' = SearchFailedMessage
            /\ UNCHANGED <<results, loading>>
  /\ event' = IF r = "ok" THEN "resolved" ELSE IF r = "empty" THEN "resolvedEmpty" ELSE "rejected"
  /\ UNCHANGED <<keyword, debounceTimer, timers, calls, storeVars, presenterVars, listVars>>

\* handleSearch without setResults([]) in its empty branch
ResolveEmptyKeepsResults(i, r) ==
  /\ outcome[i] = "pending"
  /\ outcome' = [outcome EXCEPT ![i] = r]
  /\ CASE r = "ok" ->
            /\ results' = Hits(calls[i])
            /\ UNCHANGED error
       [] r = "empty" ->
            /\ error' = NoResultsMessage
            /\ UNCHANGED results
       [] r = "fail" ->
            /\ error' = SearchFailedMessage
            /\ UNCHANGED results
  /\ loading' = FALSE
  /\ event' = IF r = "ok" THEN "resolved" ELSE IF r = "empty" THEN "resolvedEmpty" ELSE "rejected"
  /\ UNCHANGED <<keyword, debounceTimer, timers, calls, storeVars, presenterVars, listVars>>

\* handleSearch after the await: call i settles with response r
Resolve(i, r) ==
  /\ outcome[i] = "pending"
  /\ outcome' = [outcome EXCEPT ![i] = r]
  /\ CASE r = "ok" ->
            /\ results' = Hits(calls[i])
            /\ UNCHANGED error
       [] r = "empty" ->
            /\ error' = NoResultsMessage
            /\ results' = <<>>
       [] r = "fail" ->
            /\ error' = SearchFailedMessage
            /\ UNCHANGED results
  /\ loading' = FALSE
  /\ event' = IF r = "ok" THEN "resolved" ELSE IF r = "empty" THEN "resolvedEmpty" ELSE "rejected"
  /\ UNCHANGED <<keyword, debounceTimer, timers, calls, storeVars, presenterVars, listVars>>

\* the store takes a message for a page from the remote-control server
StoreReceive(text, page) ==
  /\ stamp < MaxMessages
  /\ stamp' = stamp + 1
  /\ lastMessage' = text \o <<"_", ToString(stamp + 1)>>
  /\ targetPage' = page
  /\ msgDirty' = TRUE
  /\ event' = "message"
  /\ UNCHANGED <<ctrlVars, apiVars, acks, presenterVars, listVars>>

\* the suffix that tells one message of the store from the next
MessageStamp(m) == m[Len(m)]

\* remoteControlStore.clearMessage
clearMessage ==
  /\ acks' = Append(acks, [stamp |-> MessageStamp(lastMessage), page |-> targetPage])
  /\ lastMessage' = NullMessage
  /\ targetPage' = NullPage

\* the remote-message effect without the targetPage test
RemoteMessageEffectAnyPage ==
  /\ msgDirty
  /\ IF lastMessage # NullMessage /\ lastMessage # <<>>
     THEN /\ SetKeyword(SplitFirst(lastMessage))
          /\ clearMessage
          /\ msgDirty' = TRUE
          /\ UNCHANGED stamp
     ELSE /\ msgDirty' = FALSE
          /\ UNCHANGED <<ctrlVars, lastMessage, targetPage, stamp, acks>>
  /\ event' = "messageEffect"
  /\ UNCHANGED <<apiVars, presenterVars, listVars>>

\* the remote-message effect, run after a render in which its deps changed
RemoteMessageEffect ==
  /\ msgDirty
  /\ IF lastMessage # NullMessage /\ lastMessage # <<>> /\ targetPage = "search"
     THEN /\ SetKeyword(SplitFirst(lastMessage))
          /\ clearMessage
          /\ msgDirty' = TRUE
          /\ UNCHANGED stamp
     ELSE /\ msgDirty' = FALSE
          /\ UNCHANGED <<ctrlVars, lastMessage, targetPage, stamp, acks>>
  /\ event' = "messageEffect"
  /\ UNCHANGED <<apiVars, presenterVars, listVars>>

Next ==
  \/ \E t \in Terms : ChangeText(t)
  \/ TimerFire
  \/ onSearchPress
  \/ \E i \in 1..Len(calls), r \in Responses : Resolve(i, r)
  \/ \E text \in MessageTexts, page \in Pages : StoreReceive(text, page)
  \/ RemoteMessageEffect

Spec == Init /\ [][Next]_vars

\* ------------------------------------------------------------- liveness
\* Calls are capped at MaxCalls, so a timer is set only while the call it
\* will launch is still within the cap.
Budget == timers' # {} => Len(calls') < MaxCalls

NextLive == Next /\ Budget

\* what the user and the remote-control server do
InputStep ==
  \/ \E t \in Terms : ChangeText(t)
  \/ onSearchPress
  \/ \E text \in MessageTexts, page \in Pages : StoreReceive(text, page)

\* The host fires a due timer, React runs a pending effect, and every
\* launched call settles.
SpecLive ==
  /\ Init
  /\ [][NextLive]_vars
  /\ WF_vars(TimerFire)
  /\ WF_vars(RemoteMessageEffect /\ Budget)
  /\ WF_vars(\E i \in 1..Len(calls), r \in Responses : Resolve(i, r))

\* ------------------------------------------------------------ presenter
ItemPool == { [id |-> i, title |-> <<"a">>] : i \in 1..3 }
ItemLists == UNION { [1..n -> ItemPool] : n \in 0..MaxItems }
PresenterErrors == {NullError, "", "load-failed"}
PresenterEmptyMessage == "nothing-here"

\* a parent renders CustomScrollView with props (d, l, lm, e)
Render(d, l, lm, e) ==
  /\ pData' = d
  /\ pLoading' = l
  /\ pLoadingMore' = lm
  /\ pError' = e
  /\ pView' = CustomScrollView(d, l, e, lm, PresenterEmptyMessage)
  /\ event' = "render"
  /\ UNCHANGED <<ctrlVars, apiVars, storeVars, listVars>>

NextView ==
  \E d \in ItemLists, l \in BOOLEAN, lm \in BOOLEAN, e \in PresenterErrors :
    Render(d, l, lm, e)

SpecView == Init /\ [][NextView]_vars

\* ----------------------------------------------------------------- keys
\* An item's id is undefined, a number or a string; v is what toString
\* gives for it, which no longer tells a number from a string.
UndefinedId == [t |-> "undefined", v |-> ""]
ItemIds == { UndefinedId,
             [t |-> "number", v |-> "0"], [t |-> "number", v |-> "1"],
             [t |-> "string", v |-> "1"] }
UndefinedKey == ""
ItemKeys == { UndefinedKey, "k" }
Sources == { "s1", "s2" }
KeyedItems == [id : ItemIds, key : ItemKeys, source : Sources]
KeyedLists == UNION { [1..n -> KeyedItems] : n \in 0..MaxItems }

\* item.id?.toString(); "" stands for undefined, falsy as well
IdToString(id) == IF id.t = "undefined" THEN "" ELSE id.v

\* keyExtractor={(item, index) => item.id?.toString() || item.key || `item-${index}`}
keyExtractor(item, index) ==
  IF IdToString(item.id) # "" THEN IdToString(item.id)
  ELSE IF item.key # UndefinedKey THEN item.key
  ELSE "item-" \o ToString(index)

InitKeys ==
  /\ InitScreen
  /\ kData \in KeyedLists
  /\ kKeys = <<>>
  /\ deviceType = "mobile"
  /\ InitScroll

\* FlashList asks for the key of every item of data, index from 0
ExtractKeys ==
  /\ event = "mount"
  /\ kKeys' = [i \in 1..Len(kData) |-> keyExtractor(kData[i], i - 1)]
  /\ event' = "keys"
  /\ UNCHANGED <<ctrlVars, apiVars, storeVars, presenterVars, kData, scrollVars>>

NextKeys == ExtractKeys

SpecKeys == InitKeys /\ [][NextKeys]_vars

\* --------------------------------------------------------------- scroll
MaxScrollToTop == 2
ScrollThreshold == 200
DeviceTypes == { "mobile", "tablet", "tv" }
Offsets == { 0, 200, 201, 400 }

InitScrollView ==
  /\ InitScreen
  /\ kData = <<>>
  /\ kKeys = <<>>
  /\ deviceType \in DeviceTypes
  /\ InitScroll

\* the scroll-to-top button is part of the rendered tree
ScrollToTopShown == deviceType # "tv" /\ showScrollToTop

\* handleScroll with the threshold itself counted as past it
handleScrollInclusive(y) ==
  /\ showScrollToTop' = (y >= ScrollThreshold)
  /\ scrollY' = y
  /\ event' = "scroll"
  /\ UNCHANGED <<ctrlVars, apiVars, storeVars, presenterVars, keyVars,
                 deviceType, scrollCmds, focusTimers, focus>>

\* FlashList onScroll
handleScroll(y) ==
  /\ showScrollToTop' = (y > ScrollThreshold)
  /\ scrollY' = y
  /\ event' = "scroll"
  /\ UNCHANGED <<ctrlVars, apiVars, storeVars, presenterVars, keyVars,
                 deviceType, scrollCmds, focusTimers, focus>>

\* scrollToTop: the animated scroll now, the focus in a 500 ms timeout
scrollToTop ==
  /\ Len(scrollCmds) < MaxScrollToTop
  /\ scrollCmds' = Append(scrollCmds, [offset |-> 0, animated |-> TRUE])
  /\ focusTimers' = focusTimers + 1
  /\ UNCHANGED <<showScrollToTop, scrollY, focus>>

\* onPress of the scroll-to-top button, which can be pressed when rendered
PressScrollToTop ==
  /\ ScrollToTopShown
  /\ scrollToTop
  /\ event' = "scrollToTopPress"
  /\ UNCHANGED <<ctrlVars, apiVars, storeVars, presenterVars, keyVars, deviceType>>

\* the hardwareBackPress listener, registered on tv only
BackPress ==
  /\ deviceType = "tv"
  /\ IF showScrollToTop
     THEN scrollToTop
     ELSE UNCHANGED <<showScrollToTop, scrollY, scrollCmds, focusTimers, focus>>
  /\ event' = "backPress"
  /\ UNCHANGED <<ctrlVars, apiVars, storeVars, presenterVars, keyVars, deviceType>>

\* the setTimeout callback of scrollToTop: firstCardRef.current?.focus()
FocusFirstCard ==
  /\ focusTimers > 0
  /\ focusTimers' = focusTimers - 1
  /\ focus' = "firstCard"
  /\ event' = "focusTimer"
  /\ UNCHANGED <<ctrlVars, apiVars, storeVars, presenterVars, keyVars,
                 deviceType, showScrollToTop, scrollY, scrollCmds>>

\* the user moves focus to something else
MoveFocus ==
  /\ focus = "firstCard"
  /\ focus' = "elsewhere"
  /\ event' = "moveFocus"
  /\ UNCHANGED <<ctrlVars, apiVars, storeVars, presenterVars, keyVars,
                 deviceType, showScrollToTop, scrollY, scrollCmds, focusTimers>>

NextScroll ==
  \/ \E y \in Offsets : handleScroll(y)
  \/ PressScrollToTop
  \/ BackPress
  \/ FocusFirstCard
  \/ MoveFocus

SpecScroll == InitScrollView /\ [][NextScroll]_vars

\* ---------------------------------------------------------------- claims
Pending(i) == i \in 1..Len(outcome) /\ outcome[i] = "pending"
Settles(i) == Pending(i) /\ outcome'[i] # "pending"
Screen == renderSearchContent(results, loading, error)

\* C1: when query A settles after a newer query B has already settled, A's
\* response leaves results and error as B left them.
C1_NewerQueryWins ==
  [][\A a \in 1..Len(calls) :
       (Settles(a) /\ \E b \in (a + 1)..Len(calls) : outcome[b] # "pending")
         => (results' = results /\ error' = error)]_vars

\* C2: while term changes keep arriving before the timer fires there is one
\* live timer, it carries the latest term, no change launches a call, and
\* the step that takes the timer away with the term unchanged launches
\* exactly one call, for that term, and leaves no timer behind.
C2_DebounceSingleCall ==
  [][/\ Cardinality(timers') <= 1
     /\ \A t \in timers' : t.term = keyword' /\ t.id = debounceTimer'
     /\ (keyword' # keyword => calls' = calls)
     /\ \A t \in timers :
          (t \notin timers' /\ keyword' = keyword)
            => /\ calls' = Append(calls, keyword)
               /\ t.term = keyword
               /\ NonBlank(keyword)
               /\ timers' = {}]_vars

\* C2 witness: two timers were set, the first was replaced before it fired,
\* and the only call ever launched is for the final term.
C2_Witness ==
  /\ event = "timer"
  /\ debounceTimer = 2
  /\ timers = {}
  /\ keyword = <<"a", "b">>
  /\ calls = << <<"a", "b">> >>

\* C3: a query that settles after the term has changed to another non-empty
\* term writes neither results nor error.
C3_OnlyNewestTermShown ==
  [][\A i \in 1..Len(calls) :
       (Settles(i) /\ calls[i] # keyword /\ NonBlank(keyword))
         => (results' = results /\ error' = error)]_vars

\* C4: a change of the term to an empty or whitespace-only string leaves
\* results empty, error null, loading false and no timer live, and launches
\* no call.
C4_ClearYieldsIdle ==
  [][(keyword' # keyword /\ ~NonBlank(keyword'))
       => /\ results' = <<>>
          /\ error' = NullError
          /\ loading' = FALSE
          /\ timers' = {}
          /\ calls' = calls]_vars

\* C4 witness: the term was cleared to whitespace while a timer was pending
\* (the ref still holds its id) and no call was ever launched.
C4_Witness ==
  /\ event = "changeText"
  /\ keyword = <<" ">>
  /\ debounceTimer # NoTimer
  /\ timers = {}
  /\ calls = <<>>

\* C5: a query that settles while the term is empty or whitespace-only
\* leaves results empty, error null and loading false.
C5_ClearedTermDiscardsLateResult ==
  [][\A i \in 1..Len(calls) :
       (Settles(i) /\ ~NonBlank(keyword))
         => (results' = <<>> /\ error' = NullError /\ loading' = FALSE)]_vars

\* C6: an explicit submit of a non-empty term launches the call for that
\* term in the same step and leaves no debounce timer live.
C6_SubmitBypassesDebounce ==
  [][(event' = "press" /\ NonBlank(keyword))
       => /\ calls' = Append(calls, keyword)
          /\ outcome' = Append(outcome, "pending")
          /\ timers' = {}
          /\ keyword' = keyword]_vars

\* C6 witness: submit pressed while the timer of the typed term was pending;
\* one call in all, none left to fire.
C6_Witness ==
  /\ event = "press"
  /\ keyword = <<"a">>
  /\ debounceTimer # NoTimer
  /\ timers = {}
  /\ calls = << <<"a">> >>

\* C7 (as claimed): a rejected call leaves the failure message, loading
\* false and an empty result list.
C7_FailureClearsResults ==
  [][\A i \in 1..Len(calls) :
       (Settles(i) /\ outcome'[i] = "fail")
         => /\ error' = SearchFailedMessage
            /\ loading' = FALSE
            /\ results' = <<>>]_vars

\* C7 (amended): a rejected call leaves the failure message and loading
\* false, and leaves the result list as it was.
C7_FailureKeepsResults ==
  [][\A i \in 1..Len(calls) :
       (Settles(i) /\ outcome'[i] = "fail")
         => /\ error' = SearchFailedMessage
            /\ loading' = FALSE
            /\ results' = results]_vars

\* C7 witness: the second call was rejected after the first had succeeded;
\* the items of the first are still in state.
C7_Witness ==
  /\ event = "rejected"
  /\ outcome = <<"ok", "fail">>
  /\ results = Hits(calls[1])
  /\ error = SearchFailedMessage
  /\ ~loading

\* C8: a call that resolves with an empty list leaves the no-results
\* message, an empty item list and loading false, and the screen shows that
\* message.
C8_EmptyShowsNoResults ==
  [][\A i \in 1..Len(calls) :
       (Settles(i) /\ outcome'[i] = "empty")
         => /\ error' = NoResultsMessage
            /\ results' = <<>>
            /\ loading' = FALSE
            /\ Screen' = [main |-> "errorText", text |-> NoResultsMessage,
                          footer |-> "none"]]_vars

\* C8 witness: an empty response arrived after an earlier query had put
\* items in state.
C8_Witness ==
  /\ event = "resolvedEmpty"
  /\ outcome = <<"ok", "empty">>
  /\ Screen.main = "errorText"
  /\ results = <<>>

\* C9: every clearMessage call is for a non-empty message tagged for the
\* search page, whose text becomes the term in the same step, with a timer
\* started for it when it is non-blank; no message is acknowledged twice;
\* a run of the effect on anything else changes neither term nor store.
C9_MessageConsumedOnce ==
  [][/\ acks' # acks
          => /\ targetPage = "search"
             /\ lastMessage # NullMessage
             /\ acks' = Append(acks, [stamp |-> MessageStamp(lastMessage),
                                      page |-> "search"])
             /\ keyword' = SplitFirst(lastMessage)
             /\ lastMessage' = NullMessage
             /\ (keyword' # keyword /\ NonBlank(keyword'))
                  => (loading' /\ timers' = {[id |-> debounceTimer', term |-> keyword']})
     /\ (event' = "messageEffect" /\ targetPage # "search")
          => /\ keyword' = keyword
             /\ lastMessage' = lastMessage
             /\ targetPage' = targetPage
             /\ acks' = acks
     /\ \A i, j \in 1..Len(acks') : acks'[i] = acks'[j] => i = j]_vars

\* C9 witness: a message for the search page was consumed and acknowledged,
\* and the debounce timer for its text is pending.
C9_Witness ==
  /\ event = "messageEffect"
  /\ Len(acks) = 1
  /\ lastMessage = NullMessage
  /\ keyword = <<"a">>
  /\ \E t \in timers : t.term = <<"a">>
  /\ loading

Rendered == pView # NotRendered

\* C10 (as claimed): error view whenever error is non-null; otherwise the
\* loading indicator when items is empty and loading; otherwise the empty
\* message when items is empty; otherwise the list.
C10_ErrorWheneverNonNull ==
  Rendered =>
    pView.main = IF pError # NullError THEN "error"
                 ELSE IF pData = <<>> /\ pLoading THEN "loading"
                 ELSE IF pData = <<>> THEN "empty"
                 ELSE "list"

\* C10 (amended): error view whenever error is a non-empty string; otherwise
\* the loading indicator when items is empty and loading; otherwise the
\* empty message when items is empty; otherwise the list.
C10_OneViewPerProps ==
  Rendered =>
    /\ pView.main = IF pError # NullError /\ pError # "" THEN "error"
                    ELSE IF pData = <<>> /\ pLoading THEN "loading"
                    ELSE IF pData = <<>> THEN "empty"
                    ELSE "list"
    /\ pView.main = "error" => pView.text = pError
    /\ pView.main = "empty" => pView.text = PresenterEmptyMessage

\* C10 witness: an error rendered over a non-empty list that is loading.
C10_Witness ==
  /\ event = "render"
  /\ pError = "load-failed"
  /\ pData # <<>>
  /\ pLoading
  /\ pView.main = "error"

\* C13: at most one debounce timer is live, and a live timer is the one the
\* ref holds and carries the current term, so a timer that was superseded
\* or cancelled is not there to fire.
C13_OneLiveTimer ==
  /\ Cardinality(timers) <= 1
  /\ \A t \in timers :
       /\ t.id = debounceTimer
       /\ t.term = keyword
       /\ NonBlank(keyword)

\* C13 witness: a second timer is the only live one after the first was
\* superseded, and no call was launched for the first.
C13_Witness ==
  /\ timers = {[id |-> 2, term |-> <<"a", "b">>]}
  /\ debounceTimer = 2
  /\ calls = <<>>

\* C14: a query that settles after a newer query was launched changes
\* neither results, nor error, nor loading.
C14_SupersededCompletionIsSilent ==
  [][\A a \in 1..Len(calls) :
       (Settles(a) /\ a < Len(calls))
         => UNCHANGED <<results, error, loading>>]_vars

\* C16: a submit with an empty or whitespace-only term launches no call,
\* leaves loading false and leaves results and error as they were.
C16_EmptySubmitOnlyClearsLoading ==
  [][(event' = "press" /\ ~NonBlank(keyword))
       => /\ calls' = calls
          /\ outcome' = outcome
          /\ loading' = FALSE
          /\ results' = results
          /\ error' = error
          /\ keyword' = keyword]_vars

\* C16 witness: submit pressed on a whitespace-only term while items were
\* in state; the items are still there and no further call was launched.
C16_Witness ==
  /\ event = "press"
  /\ keyword = <<" ">>
  /\ results # <<>>
  /\ Len(calls) = 1
  /\ ~loading

\* C17: while a query for the current term is in flight, loading is true.
C17_InFlightMeansLoading ==
  (\E i \in 1..Len(calls) : Pending(i) /\ calls[i] = keyword) => loading

\* C18: loading is true only while a debounce timer is pending or a query
\* is in flight.
C18_LoadingHasACause ==
  loading => (timers # {} \/ \E i \in 1..Len(calls) : Pending(i))

\* C18 witness: loading is on with no timer left, kept by the query in
\* flight alone.
C18_Witness ==
  /\ loading
  /\ timers = {}
  /\ \E i \in 1..Len(calls) : Pending(i)

\* C19: loading and a non-null error are never set together.
C19_LoadingExcludesError ==
  ~(loading /\ error # NullError)

\* C19 witness: an error was in state, and a change of term turned loading
\* on and cleared it while the failed call's successor has yet to be sent.
C19_Witness ==
  /\ event = "changeText"
  /\ loading
  /\ error = NullError
  /\ \E i \in 1..Len(calls) : outcome[i] = "fail"
  /\ \A i \in 1..Len(calls) : ~Pending(i)

\* C15: if input eventually stops (and every launched call settles), the
\* loading flag eventually becomes false and stays false.
C15_LoadingEventuallyClears ==
  (<>[][~InputStep]_vars) => <>[](~loading)

\* C15 witness: the last call was rejected and loading is off with nothing
\* left pending.
C15_Witness ==
  /\ event = "rejected"
  /\ ~loading
  /\ timers = {}
  /\ Len(calls) = MaxCalls
  /\ \A i \in 1..Len(calls) : ~Pending(i)

\* C11: each item's key is its id if it has one, else its key if it has
\* one, else its index, and the keys of one render pass are pairwise
\* distinct.
C11_KeysDistinct ==
  event = "keys" =>
    /\ Len(kKeys) = Len(kData)
    /\ \A i \in 1..Len(kData) :
         kKeys[i] = IF kData[i].id # UndefinedId THEN kData[i].id.v
                    ELSE IF kData[i].key # UndefinedKey THEN kData[i].key
                    ELSE "item-" \o ToString(i - 1)
    /\ \A i, j \in 1..Len(kKeys) : kKeys[i] = kKeys[j] => i = j

\* what activating scroll-to-top does in its own step, and when focus moves
ScrollToTopSteps ==
  /\ scrollCmds' # scrollCmds
       => /\ scrollCmds' = Append(scrollCmds, [offset |-> 0, animated |-> TRUE])
          /\ focusTimers' = focusTimers + 1
          /\ focus' = focus
  /\ event' = "scrollToTopPress" => scrollCmds' # scrollCmds
  /\ (focus' = "firstCard" /\ focus # "firstCard")
       => /\ focusTimers' = focusTimers - 1
          /\ focusTimers > 0
          /\ scrollCmds # <<>>
          /\ scrollCmds' = scrollCmds

\* C12 (as claimed): after every scroll event the control is shown exactly
\* when the reported offset is above 200; activating it issues an animated
\* scroll to 0 and focus moves to the first item only later.
C12_ShownAboveThreshold ==
  [][/\ event' = "scroll" => (ScrollToTopShown' <=> scrollY' > 200)
     /\ ScrollToTopSteps]_vars

\* C12 (amended): as above, on devices other than tv; on tv the control is
\* never shown.
C12_ShownAboveThresholdOffTv ==
  [][/\ event' = "scroll"
          => (ScrollToTopShown' <=> (deviceType' # "tv" /\ scrollY' > 200))
     /\ ScrollToTopSteps]_vars

\* C12 witness: the control was pressed, the scroll to 0 was issued, and the
\* focus callback has since put focus on the first item.
C12_Witness ==
  /\ event = "focusTimer"
  /\ deviceType = "mobile"
  /\ scrollCmds = << [offset |-> 0, animated |-> TRUE] >>
  /\ focusTimers = 0
  /\ focus = "firstCard"
====
